---- MODULE Spec2Model ----
(***************************************************************************)
(* stackblur-iter: the streaming triangular filter (StackBlur, an Iterator *)
(* adaptor) and the separable in-place pixel blur built on it              *)
(* (blur_horiz, blur_vert, blur), modelled from src/src/lib.rs.            *)
(*                                                                         *)
(* A value of the filter's type parameter T is a tuple of i32 lanes: four  *)
(* lanes for ARGB (the only instantiation in the source), one lane for a   *)
(* plain integer item.  Lane arithmetic is the i32x4 arithmetic of ARGB.   *)
(***************************************************************************)
EXTENDS Integers, Sequences, FiniteSets, TLC

\* ------------------------------------------------------------------ bounds
MaxLen == 5
MaxRadius == 3
MaxNone == 2
MaxDim == 3
MaxCells == 6
MaxBlurRadius == 2

\* Item values of the one-lane filter runs.
Vals == {0, 3, 255}

\* The scenario sequence of the specification's worked example.
Scenario == << <<10>>, <<20>>, <<30>>, <<20>>, <<10>> >>

\* ------------------------------------------------------- lane arithmetic
I32Max == 2147483647

\* Two's-complement wraparound of one i32 lane (std::simd integer vectors
\* wrap on overflow).
Wrap32(x) ==
    IF x > I32Max THEN x - I32Max - I32Max - 2
    ELSE IF x < -I32Max - 1 THEN x + I32Max + I32Max + 2
    ELSE x

\* i32 division truncates toward zero.
TDiv(a, b) == IF a >= 0 THEN a \div b ELSE -((-a) \div b)

\* T::default(): every lane zero; `like` fixes the number of lanes.
TDefault(like) == [i \in DOMAIN like |-> 0]

Add(lhs, rhs) == [i \in DOMAIN lhs |-> Wrap32(lhs[i] + rhs[i])]

\* Mutant of Sub: the subtraction written as an addition.
SubAsAdd(lhs, rhs) == [i \in DOMAIN lhs |-> Wrap32(lhs[i] + rhs[i])]

Sub(lhs, rhs) == [i \in DOMAIN lhs |-> Wrap32(lhs[i] - rhs[i])]

\* Mutant of Mul: the factor taken one too large.
MulByNext(lhs, rhs) == [i \in DOMAIN lhs |-> Wrap32(lhs[i] * (rhs + 1))]

Mul(lhs, rhs) == [i \in DOMAIN lhs |-> Wrap32(lhs[i] * rhs)]

\* Mutant of Div: no lane may exceed the first (alpha) lane's quotient.
DivClampToAlpha(lhs, rhs) ==
    [i \in DOMAIN lhs |->
        IF TDiv(lhs[i], rhs) > TDiv(lhs[1], rhs) THEN TDiv(lhs[1], rhs)
        ELSE TDiv(lhs[i], rhs)]

Div(lhs, rhs) == [i \in DOMAIN lhs |-> TDiv(lhs[i], rhs)]

\* ------------------------------------------------------------- Option<T>
None == [some |-> FALSE, val |-> <<>>]

Some(v) == [some |-> TRUE, val |-> v]

\* --------------------------------------------------------- Peekable<I>
\* The underlying iterator is a position `pos` (items pulled so far) into
\* `src`, the sequence of items it yields; Peekable adds a one-slot cache.
NewPeekable == [pos |-> 0, cached |-> FALSE, peeked |-> None]

\* I::next() of the underlying (fused) slice iterator.
InnerNext(it, src) ==
    IF it.pos < Len(src)
    THEN [iter |-> [it EXCEPT !.pos = @ + 1], item |-> Some(src[it.pos + 1])]
    ELSE [iter |-> it, item |-> None]

\* Peekable::peek: fills the cache from the underlying iterator when empty.
Peek(it, src) ==
    IF it.cached THEN [iter |-> it, item |-> it.peeked]
    ELSE LET nx == InnerNext(it, src)
         IN  [iter |-> [nx.iter EXCEPT !.cached = TRUE, !.peeked = nx.item],
              item |-> nx.item]

\* Peekable::next: takes the cache if any, else pulls.
PeekableNext(it, src) ==
    IF it.cached
    THEN [iter |-> [it EXCEPT !.cached = FALSE, !.peeked = None], item |-> it.peeked]
    ELSE InnerNext(it, src)

\* ------------------------------------------------------------ StackBlur
\* StackBlur::new(iter, radius, ops); `dflt` is T::default().
New(radius, ops, dflt) ==
    [iter |-> NewPeekable, radius |-> radius, sum |-> dflt, rate |-> dflt,
     dnom |-> 0, ops |-> ops, leading |-> 0, trailing |-> 0, done |-> TRUE]

\* Mutant of FillItem: the look-ahead debt also counts the first item
\* (`dnom >= mul` for `dnom > mul`).
FillItemDebtFromFirst(s, item, sub) ==
    LET mul == s.radius + 1 - sub
        dnom == s.dnom + mul
    IN  [s EXCEPT !.sum = Add(@, Mul(item, mul)),
                  !.rate = Add(@, item),
                  !.dnom = dnom,
                  !.trailing = IF dnom >= mul THEN @ + 1 ELSE @,
                  !.ops = [@ EXCEPT ![sub + 1] = Sub(@, Mul(item, 2)),
                                    ![sub + s.radius + 2] = Add(@, item)]]

\* One pass of the fill loop `for sub in 0..=self.radius` of init.
FillItem(s, item, sub) ==
    LET mul == s.radius + 1 - sub
        dnom == s.dnom + mul
    IN  [s EXCEPT !.sum = Add(@, Mul(item, mul)),
                  !.rate = Add(@, item),
                  !.dnom = dnom,
                  !.trailing = IF dnom > mul THEN @ + 1 ELSE @,
                  !.ops = [@ EXCEPT ![sub + 1] = Sub(@, Mul(item, 2)),
                                    ![sub + s.radius + 2] = Add(@, item)]]

RECURSIVE Fill(_, _, _)
Fill(s, src, sub) ==
    IF sub > s.radius THEN s
    ELSE LET nx == PeekableNext(s.iter, src)
         IN  IF ~nx.item.some THEN [s EXCEPT !.iter = nx.iter]
             ELSE Fill(FillItem([s EXCEPT !.iter = nx.iter], nx.item.val, sub),
                       src, sub + 1)

\* VecDeque::resize_with(n, T::default): cut to n entries, or default
\* entries pushed at the back until there are n.
RECURSIVE ResizeWith(_, _, _)
ResizeWith(q, n, z) ==
    IF Len(q) >= n THEN SubSeq(q, 1, n) ELSE ResizeWith(Append(q, z), n, z)

\* Mutant of SBInit: the fill loop is entered without the peek that finds
\* the iterator exhausted.
SBInitNoPeekCheck(s, src) ==
    LET z == TDefault(s.sum)
        s0 == [s EXCEPT !.done = FALSE,
                        !.ops = ResizeWith(<<>>, s.radius * 2 + 2, z),
                        !.sum = z, !.rate = z, !.dnom = 0,
                        !.leading = 0, !.trailing = 0]
    IN  Fill(s0, src, 0)

\* Mutant of SBInit: the deque is resized without being cleared first.
SBInitNoClear(s, src) ==
    LET z == TDefault(s.sum)
        s0 == [s EXCEPT !.done = FALSE,
                        !.ops = ResizeWith(s.ops, s.radius * 2 + 2, z),
                        !.sum = z, !.rate = z, !.dnom = 0,
                        !.leading = 0, !.trailing = 0]
        pk == Peek(s0.iter, src)
    IN  IF ~pk.item.some
        THEN [s0 EXCEPT !.iter = pk.iter, !.done = TRUE]
        ELSE Fill([s0 EXCEPT !.iter = pk.iter], src, 0)

\* StackBlur::init.
SBInit(s, src) ==
    LET z == TDefault(s.sum)
        s0 == [s EXCEPT !.done = FALSE,
                        !.ops = ResizeWith(<<>>, s.radius * 2 + 2, z),
                        !.sum = z, !.rate = z, !.dnom = 0,
                        !.leading = 0, !.trailing = 0]
        pk == Peek(s0.iter, src)
    IN  IF ~pk.item.some
        THEN [s0 EXCEPT !.iter = pk.iter, !.done = TRUE]
        ELSE Fill([s0 EXCEPT !.iter = pk.iter], src, 0)

\* Mutant of Lead: the divisor grows by the weight of the step before
\* (`leading` read before it is advanced).
LeadStale(s) ==
    IF s.leading < s.radius
    THEN [s EXCEPT !.leading = @ + 1, !.dnom = @ + s.radius + 1 - s.leading]
    ELSE s

\* `if self.leading < self.radius { ... }` of next.
Lead(s) ==
    IF s.leading < s.radius
    THEN [s EXCEPT !.leading = @ + 1, !.dnom = @ + s.radius + 1 - (s.leading + 1)]
    ELSE s

\* Mutant of Ingest: the closing impulse one slot early in the ring.
IngestEarly(s, item) ==
    [s EXCEPT !.sum = Add(@, item),
              !.rate = Add(@, item),
              !.ops = [@ EXCEPT ![s.radius + 1] = Sub(@, Mul(item, 2)),
                                ![s.radius * 2 + 1] = Add(@, item)]]

\* The ingest branch of next: the next input item enters the window.
Ingest(s, item) ==
    [s EXCEPT !.sum = Add(@, item),
              !.rate = Add(@, item),
              !.ops = [@ EXCEPT ![s.radius + 1] = Sub(@, Mul(item, 2)),
                                ![s.radius * 2 + 2] = Add(@, item)]]

\* Mutant of Drain: the divisor loses the weight one step further out.
DrainShort(s) ==
    [s EXCEPT !.dnom = @ - (s.radius - s.trailing), !.trailing = @ - 1]

\* The drain branch of next: the divisor loses the weight leaving the window.
Drain(s) ==
    [s EXCEPT !.dnom = @ - (s.radius + 1 - s.trailing), !.trailing = @ - 1]

\* The branch at the end of next (`&&` short-circuits: no peek unless
\* trailing == radius).
Advance(s, src) ==
    LET pk == IF s.trailing = s.radius THEN Peek(s.iter, src)
              ELSE [iter |-> s.iter, item |-> None]
    IN  IF s.trailing = s.radius /\ pk.item.some
        THEN LET nx == PeekableNext(pk.iter, src)
             IN  Ingest([s EXCEPT !.iter = nx.iter], nx.item.val)
        ELSE IF s.trailing > 0 THEN Drain([s EXCEPT !.iter = pk.iter])
        ELSE [s EXCEPT !.iter = pk.iter, !.done = TRUE]

\* Mutant of Rotate: the popped correction is dropped instead of added to
\* rate.
RotateDropped(s) ==
    [s EXCEPT !.sum = Add(@, s.rate),
              !.ops = Append(Tail(@), TDefault(s.sum))]

\* Mutant of Rotate: the default entry is pushed without an entry being
\* popped (the front is only read).
RotateNoPop(s) ==
    LET rate == Add(s.rate, Head(s.ops))
    IN  [s EXCEPT !.rate = rate, !.sum = Add(@, rate),
                  !.ops = Append(@, TDefault(s.sum))]

\* The accumulator step of next: rate += ops.pop_front(); sum += rate;
\* ops.push_back(default).
Rotate(s) ==
    LET rate == Add(s.rate, Head(s.ops))
    IN  [s EXCEPT !.rate = rate, !.sum = Add(@, rate),
                  !.ops = Append(Tail(@), TDefault(s.sum))]

\* <StackBlur as Iterator>::next.  The outcome holds the state after the
\* call, the returned Option, whether the call panicked (division by a zero
\* divisor) and the divisor used for the output.
SBNext(s, src) ==
    LET s1 == IF s.done THEN SBInit(s, src) ELSE s
    IN  IF s1.done
        THEN [state |-> s1, result |-> None, panic |-> FALSE, dnom |-> 0]
        ELSE IF s1.dnom = 0
        THEN [state |-> s1, result |-> None, panic |-> TRUE, dnom |-> 0]
        ELSE [state |-> Advance(Lead(Rotate(s1)), src),
              result |-> Some(Div(s1.sum, s1.dnom)),
              panic |-> FALSE, dnom |-> s1.dnom]

\* The consumer loop `while let Some(x) = iter.next()`: next is called until
\* it returns None (or panics); `acc` collects the items returned.
RECURSIVE Drive(_, _, _)
Drive(s, src, acc) ==
    LET r == SBNext(s, src)
    IN  IF r.panic \/ ~r.result.some
        THEN [outs |-> acc, state |-> r.state, panic |-> r.panic]
        ELSE Drive(r.state, src, Append(acc, r.result.val))

\* A StackBlur made by new over `src`, a sequence nobody writes to, and run
\* to its first None.
Collect(src, r, ops0, dflt) == Drive(New(r, ops0, dflt), src, <<>>)

\* StackBlur::into_ops.
IntoOps(s) == s.ops

\* The StackBlur after k calls of next.
RECURSIVE StateAfter(_, _, _)
StateAfter(s, src, k) ==
    IF k = 0 THEN s ELSE StateAfter(SBNext(s, src).state, src, k - 1)

\* ----------------------------------------------------------------- ARGB
\* ARGB::from_argb: the four big-endian bytes of the packed u32 as i32 lanes.
from_argb(argb) ==
    << argb \div 16777216, (argb \div 65536) % 256, (argb \div 256) % 256, argb % 256 >>

\* Mutant of to_argb: the lanes packed little-endian.
to_argb_le(self) ==
    (self[4] % 256) * 16777216 + (self[3] % 256) * 65536
        + (self[2] % 256) * 256 + (self[1] % 256)

\* ARGB::to_argb: every lane cut to its low 8 bits (`as u8`), packed
\* big-endian.
to_argb(self) ==
    (self[1] % 256) * 16777216 + (self[2] % 256) * 65536
        + (self[3] % 256) * 256 + (self[4] % 256)

\* ARGB::default(): the derived Default of ARGB(i32x4).
ARGBDefault == <<0, 0, 0, 0>>

\* ------------------------------------------------------------ variables
VARIABLES
    input,      \* filter run: the items the underlying iterator yields
    out,        \* filter run: the outputs next has returned so far
    used,       \* filter run: the divisor used for each output
    nones,      \* filter run: how many calls of next have returned None
    sb,         \* the StackBlur (`iter` of the blur functions)
    pc,         \* where the caller is
    fn,         \* the function called: "blur_horiz", "blur_vert", "blur"
    debug_assertions,   \* whether the build has debug assertions on
    argb,       \* the pixel buffer
    argb0,      \* the pixel buffer as passed in
    width, height, radius,
    ops,        \* the deque handed to StackBlur::new (the local `ops` of the blur functions)
    row,        \* index of the current chunk of chunks_exact_mut
    col,        \* `col` of blur_vert
    index,      \* `index` of the write loop
    pending,    \* the item `iter.next()` returned, about to be written
    seq0        \* the current row or column as it was when its StackBlur was made

filterVars == <<input, out, used, nones>>

blurVars == <<fn, debug_assertions, argb, argb0, width, height, radius, ops,
              row, col, index, pending, seq0>>

vars == <<input, out, used, nones, sb, pc, fn, debug_assertions, argb, argb0,
          width, height, radius, ops, row, col, index, pending, seq0>>

\* ----------------------------------------------------------- filter runs
\* Deques into_ops returns after an earlier run over the scenario sequence
\* with the largest radius, given up after two outputs or run to its None.
PrevOps ==
    { IntoOps(StateAfter(New(MaxRadius, <<>>, <<0>>), Scenario, k)) :
        k \in {2, Len(Scenario) + 1} }

\* Deques a caller may hand to StackBlur::new.
SomeOps == { <<>>, << <<7>> >>, << <<1>>, <<-2>>, <<3>>, <<4>>, <<5>> >> } \cup PrevOps

Inputs == UNION {[1..n -> {<<v>> : v \in Vals}] : n \in 0..MaxLen} \cup {Scenario}

InitFilter ==
    /\ input \in Inputs
    /\ ops \in SomeOps
    /\ \E r \in 0..MaxRadius : sb = New(r, ops, <<0>>)
    /\ out = <<>>
    /\ used = <<>>
    /\ nones = 0
    /\ pc = "next"
    /\ fn = "StackBlur"
    /\ debug_assertions = TRUE
    /\ argb = <<>> /\ argb0 = <<>>
    /\ width = 0 /\ height = 0 /\ radius = 0
    /\ row = 0 /\ col = 0 /\ index = 0
    /\ pending = ARGBDefault
    /\ seq0 = <<>>

\* The consumer calls next once more.
CallNext ==
    /\ pc = "next"
    /\ nones < MaxNone
    /\ LET r == SBNext(sb, input)
       IN  /\ sb' = r.state
           /\ pc' = IF r.panic THEN "panic" ELSE "next"
           /\ out' = IF r.result.some THEN Append(out, r.result.val) ELSE out
           /\ used' = IF r.result.some THEN Append(used, r.dnom) ELSE used
           /\ nones' = IF r.result.some \/ r.panic THEN nones ELSE nones + 1
    /\ UNCHANGED input
    /\ UNCHANGED blurVars

NextFilter == CallNext

SpecFilter == InitFilter /\ [][NextFilter]_vars

\* ------------------------------------------------------------ pixel blur
\* Packed pixels of the checked buffers (0x01020304 and 0x7FFF0009).
Pixels == {16909060, 2147418121}

Buffers(n) == [1..n -> Pixels]

InitBlur ==
    /\ fn \in {"blur_horiz", "blur_vert", "blur"}
    /\ debug_assertions \in BOOLEAN
    /\ width \in 0..MaxDim
    /\ height \in 0..MaxDim
    /\ radius \in 0..MaxBlurRadius
    /\ \E n \in 0..MaxCells :
          /\ n \in {width * height - 1, width * height, width * height + 1}
          /\ argb \in Buffers(n)
    /\ argb0 = argb
    /\ pc = fn
    /\ sb = New(0, <<>>, ARGBDefault)
    /\ ops = <<>>
    /\ row = 0 /\ col = 0 /\ index = 0
    /\ pending = ARGBDefault
    /\ seq0 = <<>>
    /\ input = <<>> /\ out = <<>> /\ used = <<>> /\ nones = 0

\* Mutant of DebugAssertFails: only a buffer that is too short is refused.
DebugAssertShortOnly == debug_assertions /\ Len(argb) < width * height

\* debug_assert_eq!(argb.len(), width * height)
DebugAssertFails == debug_assertions /\ Len(argb) # width * height

\* Mutant of Blur: the vertical pass is called first.
BlurVertFirst ==
    /\ pc = "blur"
    /\ pc' = "blur_vert"
    /\ UNCHANGED <<sb, filterVars, blurVars>>

\* blur: calls blur_horiz; blur_vert follows when it returns.
Blur ==
    /\ pc = "blur"
    /\ pc' = "blur_horiz"
    /\ UNCHANGED <<sb, filterVars, blurVars>>

\* Entry of blur_horiz: the assertion, the fresh deque, and
\* chunks_exact_mut(width), which panics for a chunk size of zero.
HorizEnter ==
    /\ pc = "blur_horiz"
    /\ pc' = IF DebugAssertFails \/ width = 0 THEN "panic" ELSE "h_row"
    /\ ops' = <<>>
    /\ row' = 0
    /\ UNCHANGED <<sb, filterVars, fn, debug_assertions, argb, argb0, width,
                   height, radius, col, index, pending, seq0>>

\* Mutant of RowItems: every row's iterator runs over the first row.
RowItemsFirstRow == [k \in 1..width |-> from_argb(argb[k])]

\* The items the row's iterator yields now: the row's slots as they are in
\* memory at this moment, through from_argb.  (The iterator reads a slot when
\* the item is pulled.)
RowItems == [k \in 1..width |-> from_argb(argb[row * width + k])]

\* Mutant of HorizRow: the write index starts at 1.
HorizRowFromOne ==
    /\ pc = "h_row"
    /\ row < Len(argb) \div width
    /\ sb' = New(radius, ops, ARGBDefault)
    /\ index' = 1
    /\ seq0' = RowItems
    /\ pc' = "h_next"
    /\ UNCHANGED <<filterVars, fn, debug_assertions, argb, argb0, width, height,
                   radius, ops, row, col, pending>>

\* The next chunk of the row loop: StackBlur::new over the row.
HorizRow ==
    /\ pc = "h_row"
    /\ row < Len(argb) \div width
    /\ sb' = New(radius, ops, ARGBDefault)
    /\ index' = 0
    /\ seq0' = RowItems
    /\ pc' = "h_next"
    /\ UNCHANGED <<filterVars, fn, debug_assertions, argb, argb0, width, height,
                   radius, ops, row, col, pending>>

\* No chunk is left: blur_horiz returns.
HorizReturn ==
    /\ pc = "h_row"
    /\ row >= Len(argb) \div width
    /\ pc' = IF fn = "blur" THEN "blur_vert" ELSE "done"
    /\ UNCHANGED <<sb, filterVars, blurVars>>

\* `iter.next()` of `while let Some(argb) = iter.next()` in blur_horiz; on
\* None the loop ends, `ops = iter.into_ops()`, and the next row follows.
HorizNext ==
    /\ pc = "h_next"
    /\ LET r == SBNext(sb, RowItems)
       IN  /\ sb' = r.state
           /\ pending' = IF r.result.some THEN r.result.val ELSE pending
           /\ pc' = IF r.panic THEN "panic"
                    ELSE IF r.result.some THEN "h_write" ELSE "h_row"
           /\ ops' = IF r.panic \/ r.result.some THEN ops ELSE r.state.ops
           /\ row' = IF r.panic \/ r.result.some THEN row ELSE row + 1
    /\ UNCHANGED <<filterVars, fn, debug_assertions, argb, argb0, width, height,
                   radius, col, index, seq0>>

\* The loop body of blur_horiz: (*not_safe)[index] = argb.to_argb();
\* index += 1.  The slice is the row: an index past it panics.
HorizWrite ==
    /\ pc = "h_write"
    /\ IF index >= width
       THEN pc' = "panic" /\ UNCHANGED <<argb, index>>
       ELSE /\ argb' = [argb EXCEPT ![row * width + index + 1] = to_argb(pending)]
            /\ index' = index + 1
            /\ pc' = "h_next"
    /\ UNCHANGED <<sb, filterVars, fn, debug_assertions, argb0, width, height,
                   radius, ops, row, col, pending, seq0>>

\* Entry of blur_vert: the assertion and the fresh deque.
VertEnter ==
    /\ pc = "blur_vert"
    /\ pc' = IF DebugAssertFails THEN "panic" ELSE "v_col"
    /\ ops' = <<>>
    /\ col' = 0
    /\ UNCHANGED <<sb, filterVars, fn, debug_assertions, argb, argb0, width,
                   height, radius, row, index, pending, seq0>>

\* How many items iter().skip(col).step_by(width) yields.
ColLen == IF col >= Len(argb) THEN 0 ELSE (Len(argb) - 1 - col) \div width + 1

\* Mutant of ColItems: skip(col) dropped, every column's iterator runs over
\* the first column.
ColItemsNoSkip == [k \in 1..ColLen |-> from_argb(argb[(k - 1) * width + 1])]

\* The items the column's iterator yields now (see RowItems).
ColItems == [k \in 1..ColLen |-> from_argb(argb[col + (k - 1) * width + 1])]

\* Mutant of VertCol: the write index starts at the top of the first column
\* for every column.
VertColFromTop ==
    /\ pc = "v_col"
    /\ col < width
    /\ sb' = New(radius, ops, ARGBDefault)
    /\ index' = 0
    /\ seq0' = ColItems
    /\ pc' = "v_next"
    /\ UNCHANGED <<filterVars, fn, debug_assertions, argb, argb0, width, height,
                   radius, ops, row, col, pending>>

\* The next column of `for col in 0..width`: StackBlur::new over the column.
VertCol ==
    /\ pc = "v_col"
    /\ col < width
    /\ sb' = New(radius, ops, ARGBDefault)
    /\ index' = col
    /\ seq0' = ColItems
    /\ pc' = "v_next"
    /\ UNCHANGED <<filterVars, fn, debug_assertions, argb, argb0, width, height,
                   radius, ops, row, col, pending>>

\* No column is left: blur_vert returns (and with it blur).
VertReturn ==
    /\ pc = "v_col"
    /\ col >= width
    /\ pc' = "done"
    /\ UNCHANGED <<sb, filterVars, blurVars>>

\* `iter.next()` of `while let Some(argb) = iter.next()` in blur_vert; on
\* None the loop ends, `ops = iter.into_ops()`, and the next column follows.
VertNext ==
    /\ pc = "v_next"
    /\ LET r == SBNext(sb, ColItems)
       IN  /\ sb' = r.state
           /\ pending' = IF r.result.some THEN r.result.val ELSE pending
           /\ pc' = IF r.panic THEN "panic"
                    ELSE IF r.result.some THEN "v_write" ELSE "v_col"
           /\ ops' = IF r.panic \/ r.result.some THEN ops ELSE r.state.ops
           /\ col' = IF r.panic \/ r.result.some THEN col ELSE col + 1
    /\ UNCHANGED <<filterVars, fn, debug_assertions, argb, argb0, width, height,
                   radius, row, index, seq0>>

\* The loop body of blur_vert: (*not_safe)[index] = argb.to_argb();
\* index += width.  The slice is the whole buffer: an index past it panics.
VertWrite ==
    /\ pc = "v_write"
    /\ IF index >= Len(argb)
       THEN pc' = "panic" /\ UNCHANGED <<argb, index>>
       ELSE /\ argb' = [argb EXCEPT ![index + 1] = to_argb(pending)]
            /\ index' = index + width
            /\ pc' = "v_next"
    /\ UNCHANGED <<sb, filterVars, fn, debug_assertions, argb0, width, height,
                   radius, ops, row, col, pending, seq0>>

NextBlur ==
    \/ Blur
    \/ HorizEnter
    \/ HorizRow
    \/ HorizReturn
    \/ HorizNext
    \/ HorizWrite
    \/ VertEnter
    \/ VertCol
    \/ VertReturn
    \/ VertNext
    \/ VertWrite

SpecBlur == InitBlur /\ [][NextBlur]_vars

\* ------------------------------------------- buffers of the stated size
\* The calls whose buffer holds exactly width * height pixels (the
\* assertion of blur_horiz and blur_vert passes).
InitPass ==
    /\ fn \in {"blur_horiz", "blur_vert", "blur"}
    /\ debug_assertions = TRUE
    /\ width \in 0..MaxDim
    /\ height \in 0..MaxDim
    /\ radius \in 0..MaxBlurRadius
    /\ width * height <= MaxCells
    /\ argb \in Buffers(width * height)
    /\ argb0 = argb
    /\ pc = fn
    /\ sb = New(0, <<>>, ARGBDefault)
    /\ ops = <<>>
    /\ row = 0 /\ col = 0 /\ index = 0
    /\ pending = ARGBDefault
    /\ seq0 = <<>>
    /\ input = <<>> /\ out = <<>> /\ used = <<>> /\ nones = 0

SpecPass == InitPass /\ [][NextBlur]_vars

\* ------------------------------------------- the two orders of the passes
MaxSide == 2

\* The buffer of a square image of side n with rows and columns exchanged.
Transpose(buf, n) ==
    [s \in 1..Len(buf) |-> buf[((s - 1) % n) * n + ((s - 1) \div n) + 1]]

\* Square buffers whose pixel at (x, y) equals the pixel at (y, x).
SymmetricBuffers(n) == {b \in Buffers(n * n) : b = Transpose(b, n)}

\* A caller with a symmetric square buffer calls blur (blur_horiz, then
\* blur_vert), or blur_vert and after it blur_horiz.
InitSym ==
    /\ fn \in {"blur", "blur_vert"}
    /\ debug_assertions \in BOOLEAN
    /\ \E n \in 1..MaxSide :
          /\ width = n
          /\ height = n
          /\ argb \in SymmetricBuffers(n)
    /\ radius \in 0..MaxBlurRadius
    /\ argb0 = argb
    /\ pc = fn
    /\ sb = New(0, <<>>, ARGBDefault)
    /\ ops = <<>>
    /\ row = 0 /\ col = 0 /\ index = 0
    /\ pending = ARGBDefault
    /\ seq0 = <<>>
    /\ input = <<>> /\ out = <<>> /\ used = <<>> /\ nones = 0

\* blur_vert has returned: the caller calls blur_horiz on the same buffer
\* with the same width, height and radius.
ThenHoriz ==
    /\ pc = "done"
    /\ fn = "blur_vert"
    /\ fn' = "blur_horiz"
    /\ pc' = "blur_horiz"
    /\ UNCHANGED <<sb, filterVars, debug_assertions, argb, argb0, width, height,
                   radius, ops, row, col, index, pending, seq0>>

NextSym ==
    \/ NextBlur
    \/ ThenHoriz

SpecSym == InitSym /\ [][NextSym]_vars

\* ------------------------------------------------- reference semantics
\* The triangular weight w(d) = radius + 1 - |d| inside [-radius, radius].
Weight(d, r) ==
    LET a == IF d < 0 THEN -d ELSE d
    IN  IF a <= r THEN r + 1 - a ELSE 0

\* Sum over j in 1..n of Weight(j - i, r) * S[j][lane] (positions 1-based).
RECURSIVE WeightedSum(_, _, _, _, _)
WeightedSum(S, r, i, lane, n) ==
    IF n = 0 THEN 0
    ELSE WeightedSum(S, r, i, lane, n - 1) + Weight(n - i, r) * S[n][lane]

\* Sum over j in 1..n of Weight(j - i, r).
RECURSIVE WeightMass(_, _, _)
WeightMass(r, i, n) ==
    IF n = 0 THEN 0 ELSE WeightMass(r, i, n - 1) + Weight(n - i, r)

\* The boundary-renormalized triangular average at position i of S.
Reference(S, r, i) ==
    [lane \in DOMAIN S[i] |->
        TDiv(WeightedSum(S, r, i, lane, Len(S)), WeightMass(r, i, Len(S)))]

IsConstant(S) == \A i, j \in DOMAIN S : S[i] = S[j]

Complete == Len(out) = Len(input)

\* ---------------------------------------------------------------- claims

\* C1: every output next has returned, the i-th, is the truncated quotient
\* of the triangular weighted sum of the inputs within radius of i by the
\* sum of the weights actually used, for every radius (also radius >= N).
C1_WeightedAverage ==
    /\ pc = "next"
    /\ Len(out) <= Len(input)
    /\ \A i \in 1..Len(out) : out[i] = Reference(input, sb.radius, i)

\* C1 witness: a non-constant input of three or more items, filtered to the
\* end with a radius that is at least its length.
C1_Witness ==
    /\ Complete
    /\ Len(input) >= 3
    /\ sb.radius >= Len(input)
    /\ ~IsConstant(input)
    /\ \E i \in 1..Len(out) : out[i] # input[i]

\* C2: exactly N outputs come before the first None, every input item has
\* then been pulled from the underlying iterator (once: it only advances),
\* and an empty input gives None on the first call.
C2_OneOutputPerInput ==
    /\ pc = "next"
    /\ Len(out) <= Len(input)
    /\ sb.iter.pos <= Len(input)
    /\ Len(out) <= sb.iter.pos
    /\ nones > 0 => Complete /\ sb.iter.pos = Len(input)

\* C2 witness: a full-length input run to its None with a radius shorter
\* than the input, so fill, ingest and drain all took part.
C2_Witness ==
    /\ nones > 0
    /\ Len(input) = MaxLen
    /\ sb.radius = 1
    /\ Len(out) = MaxLen

\* C3: with radius 0 the outputs are the inputs, element for element.
C3_RadiusZeroIdentity ==
    sb.radius = 0 =>
        /\ Len(out) <= Len(input)
        /\ out = SubSeq(input, 1, Len(out))
        /\ nones > 0 => Complete

\* C3 witness: a non-constant input of three or more items passed through
\* with radius 0.
C3_Witness ==
    /\ sb.radius = 0
    /\ nones > 0
    /\ Len(out) >= 3
    /\ ~IsConstant(input)

\* C4: a constant input gives that constant at every output, also where
\* the divisor is renormalized at the two ends.
C4_ConstantPreserved ==
    IsConstant(input) =>
        /\ Len(out) <= Len(input)
        /\ \A i \in 1..Len(out) : out[i] = input[1]
        /\ nones > 0 => Complete

\* C4 witness: a constant non-zero input longer than 2*radius, radius >= 1,
\* filtered to the end: both ends were renormalized.
C4_Witness ==
    /\ IsConstant(input)
    /\ Len(input) >= 3
    /\ input[1] # <<0>>
    /\ sb.radius >= 1
    /\ Len(input) > 2 * sb.radius
    /\ nones > 0
    /\ used[1] < used[sb.radius + 1]

\* C5: the divisor used for every output is between 1 and (radius+1)^2,
\* and it stays positive while outputs remain.
C5_DivisorRange ==
    /\ pc = "next"
    /\ \A i \in 1..Len(used) :
          /\ 1 <= used[i]
          /\ used[i] <= (sb.radius + 1) * (sb.radius + 1)
    /\ (Len(out) > 0 /\ ~sb.done) => sb.dnom >= 1

\* C5 witness: a run in which the divisor reached (radius+1)^2 and was then
\* brought down by the drain branch.
C5_Witness ==
    /\ sb.radius >= 1
    /\ Complete
    /\ \E i \in 1..Len(used) : used[i] = (sb.radius + 1) * (sb.radius + 1)
    /\ used[Len(used)] < (sb.radius + 1) * (sb.radius + 1)

\* C10 as stated: for [10, 20, 30, 20, 10] and radius 1 the output at
\* index 2 is 22.
C10_Original ==
    (input = Scenario /\ sb.radius = 1 /\ Len(out) >= 3) => out[3] = <<22>>

\* C10 amended: for [10, 20, 30, 20, 10] and radius 1 the output at index 2
\* is (1*20 + 2*30 + 1*20) / 4 = 25.
C10_Amended ==
    (input = Scenario /\ sb.radius = 1 /\ Len(out) >= 3) => out[3] = <<25>>

\* C10 witness: the scenario run past its third output.
C10_Witness ==
    /\ input = Scenario
    /\ sb.radius = 1
    /\ Len(out) >= 3
    /\ out[1] = <<13>>

\* ------------------------------------------- reference semantics (2-D)
\* The horizontal pass over buf, row by row, each row filtered from a copy.
RefHoriz(buf, w, r) ==
    IF w = 0 THEN buf
    ELSE [s \in 1..Len(buf) |->
            LET y == (s - 1) \div w
                items == [k \in 1..w |-> from_argb(buf[y * w + k])]
            IN  IF y < Len(buf) \div w
                THEN to_argb(Reference(items, r, ((s - 1) % w) + 1))
                ELSE buf[s]]

\* The vertical pass over buf, column by column, each filtered from a copy.
RefVert(buf, w, r) ==
    IF w = 0 THEN buf
    ELSE [s \in 1..Len(buf) |->
            LET x == (s - 1) % w
                n == (Len(buf) - 1 - x) \div w + 1
                items == [k \in 1..n |-> from_argb(buf[x + (k - 1) * w + 1])]
            IN  to_argb(Reference(items, r, ((s - 1) \div w) + 1))]

\* The buffer the called function is to leave.
Expected ==
    IF fn = "blur_horiz" THEN RefHoriz(argb0, width, radius)
    ELSE IF fn = "blur_vert" THEN RefVert(argb0, width, radius)
    ELSE RefVert(RefHoriz(argb0, width, radius), width, radius)

SizeMatches == Len(argb0) = width * height

\* C6: in blur_horiz and blur_vert the output index never passes the number
\* of items consumed, it is strictly below it whenever an output is about
\* to be written, and every slot of the row or column that has not been
\* read yet still holds its input value.
C6_ReadBeforeWrite ==
    /\ pc \in {"h_next", "h_write"} =>
          /\ index <= sb.iter.pos
          /\ pc = "h_write" => index < sb.iter.pos
          /\ \A k \in (sb.iter.pos + 1)..width : RowItems[k] = seq0[k]
    /\ pc \in {"v_next", "v_write"} =>
          /\ (index - col) \div width <= sb.iter.pos
          /\ pc = "v_write" => (index - col) \div width < sb.iter.pos
          /\ \A k \in (sb.iter.pos + 1)..ColLen : ColItems[k] = seq0[k]

\* C6 witness: the vertical pass of blur is about to write the second
\* output of a column of three while earlier slots are already overwritten.
C6_Witness ==
    /\ fn = "blur"
    /\ pc = "v_write"
    /\ radius = 1
    /\ width = 2 /\ height = 3 /\ col = 1
    /\ index = col + width
    /\ argb[col + 1] # to_argb(seq0[1])

\* C7 as stated: with a buffer of width*height pixels that is empty, or has
\* width 0, height 0, a single row or a single column, or with radius 0,
\* the three functions complete without failure and leave the
\* algebraically defined buffer.
C7_EdgeCasesComplete ==
    (/\ SizeMatches
     /\ \/ Len(argb0) = 0
        \/ width = 0
        \/ height = 0
        \/ radius = 0
        \/ width = 1
        \/ height = 1)
    => /\ pc # "panic"
       /\ pc = "done" => argb = Expected

\* C8 as stated: when the buffer length differs from width*height the call
\* fails before any element is modified, so the buffer always equals the
\* buffer passed in.
C8_Original ==
    ~SizeMatches => argb = argb0

\* C8 amended: in a build with debug assertions, when the buffer length
\* differs from width*height the call fails on entry, before any element is
\* modified.
C8_DebugFailFast ==
    (debug_assertions /\ ~SizeMatches) =>
        /\ argb = argb0
        /\ pc \in {"blur", "blur_horiz", "blur_vert", "panic"}
        /\ fn = "blur" => pc # "blur_vert"

\* C8 witness: a debug build has refused a non-empty buffer that is one
\* pixel too long.
C8_Witness ==
    /\ debug_assertions
    /\ Len(argb0) = width * height + 1
    /\ width * height > 0
    /\ pc = "panic"

\* C9: a buffer of one pixel (width = height = 1) keeps its pixel under
\* blur, blur_horiz and blur_vert, for every radius.
C9_SinglePixel ==
    (width = 1 /\ height = 1 /\ Len(argb0) = 1) =>
        /\ argb = argb0
        /\ pc # "panic"

\* C9 witness: blur has completed on a single pixel with a radius above 0.
C9_Witness ==
    /\ width = 1 /\ height = 1 /\ Len(argb0) = 1
    /\ fn = "blur"
    /\ radius >= 1
    /\ pc = "done"
    /\ argb0[1] = 2147418121

\* ------------------------------------------------ passes over a copy
\* The write loop of blur_horiz and blur_vert over a sequence nobody else
\* writes to: a StackBlur made by new with a fresh deque, run to its first
\* None, every item it returns packed by to_argb.
BlurSeq(items, r) ==
    LET outs == Collect(items, r, <<>>, ARGBDefault).outs
    IN  [k \in 1..Len(outs) |-> to_argb(outs[k])]

\* Row y (0-based) of buf for width w, as items.
RowOf(buf, w, y) == [k \in 1..w |-> from_argb(buf[y * w + k])]

\* blur_horiz computed out of place: every whole row of buf is filtered by
\* a StackBlur of its own, reading a copy of the row; what chunks_exact_mut
\* leaves over stays as it is.
BlurHorizOf(buf, w, r) ==
    IF w = 0 THEN buf
    ELSE LET rows == [y \in 1..(Len(buf) \div w) |-> BlurSeq(RowOf(buf, w, y - 1), r)]
         IN  [s \in 1..Len(buf) |->
                IF (s - 1) \div w < Len(rows)
                THEN rows[((s - 1) \div w) + 1][((s - 1) % w) + 1]
                ELSE buf[s]]

\* Column x (0-based) of buf for width w, as items.
ColumnOf(buf, w, x) ==
    [k \in 1..(IF x >= Len(buf) THEN 0 ELSE ((Len(buf) - 1 - x) \div w) + 1) |->
        from_argb(buf[x + (k - 1) * w + 1])]

\* blur_vert computed out of place, column by column.
BlurVertOf(buf, w, r) ==
    IF w = 0 THEN buf
    ELSE LET cols == [x \in 1..w |-> BlurSeq(ColumnOf(buf, w, x - 1), r)]
         IN  [s \in 1..Len(buf) |->
                IF ((s - 1) % w) + 1 <= Len(cols)
                THEN cols[((s - 1) % w) + 1][((s - 1) \div w) + 1]
                ELSE buf[s]]

HorizPcs == {"blur_horiz", "h_row", "h_next", "h_write"}

VertPcs == {"blur_vert", "v_col", "v_next", "v_write"}

\* C11, the states: in a run of blur the vertical pass starts from the
\* buffer blur_horiz leaves (no whole row is left), every column it filters is a
\* column of that buffer, and the final buffer is blur_vert of blur_horiz
\* of the buffer passed in.
C11_States ==
    fn = "blur" =>
        /\ pc \in VertPcs \cup {"done"} => (row + 1) * width > Len(argb)
        /\ pc = "blur_vert" => argb = BlurHorizOf(argb0, width, radius)
        /\ pc \in {"v_next", "v_write"} =>
              seq0 = ColumnOf(BlurHorizOf(argb0, width, radius), width, col)
        /\ pc = "done" =>
              argb = BlurVertOf(BlurHorizOf(argb0, width, radius), width, radius)

\* C11, the steps: once the vertical pass has begun no step of the
\* horizontal pass follows.
C11_Steps == pc \in VertPcs \cup {"done"} => pc' \notin HorizPcs

\* C11: blur leaves what blur_horiz followed by blur_vert leaves, and every
\* write of the horizontal pass comes before the first read or write of the
\* vertical pass, which therefore reads only horizontally blurred values.
C11_HorizThenVert == []C11_States /\ [][fn = "blur" => C11_Steps]_vars

\* C11 witness: blur is about to write into the second column of a buffer
\* that the horizontal pass has changed.
C11_Witness ==
    /\ fn = "blur"
    /\ pc = "v_write"
    /\ radius >= 1
    /\ width >= 2 /\ height >= 2 /\ col = 1
    /\ Len(argb0) = width * height
    /\ BlurHorizOf(argb0, width, radius) # argb0

\* Both calls of the run "blur_vert, then blur_horiz" have returned (in
\* SpecSym blur_horiz is only ever called after blur_vert).
VertHorizDone == fn = "blur_horiz" /\ pc = "done"

\* C12 as stated: on a symmetric buffer blur_vert followed by blur_horiz
\* leaves the buffer that blur_horiz followed by blur_vert leaves.
C12_Original ==
    VertHorizDone =>
        argb = BlurVertOf(BlurHorizOf(argb0, width, radius), width, radius)

\* C12 amended: on a symmetric buffer blur_vert followed by blur_horiz
\* leaves the transpose of the buffer that blur_horiz followed by blur_vert
\* (which is what blur does) leaves; the two coincide when that buffer is
\* itself symmetric, as it is for radius 0.
C12_TransposedOrders ==
    /\ (fn = "blur" /\ pc = "done") =>
          argb = BlurVertOf(BlurHorizOf(argb0, width, radius), width, radius)
    /\ VertHorizDone =>
          /\ argb = Transpose(BlurVertOf(BlurHorizOf(argb0, width, radius),
                                         width, radius), width)
          /\ radius = 0 => argb = argb0

\* C12 witness: blur_vert then blur_horiz have run on a symmetric 2 x 2
\* buffer with a radius above 0 and left a buffer that is not symmetric.
C12_Witness ==
    /\ VertHorizDone
    /\ width = 2
    /\ radius >= 1
    /\ argb0 = Transpose(argb0, width)
    /\ argb # Transpose(argb, width)

\* ------------------------------------------------------------- lanes
Lanes == 1..4

\* Lane c of every pixel of buf.
LaneOf(buf, c) == [s \in 1..Len(buf) |-> from_argb(buf[s])[c]]

\* buf with every lane but c set to zero.
OnlyLane(buf, c) ==
    [s \in 1..Len(buf) |->
        to_argb([l \in Lanes |-> IF l = c THEN from_argb(buf[s])[l] ELSE 0])]

\* The buffer function f leaves, computed out of place.
ResultOf(f, buf, w, r) ==
    IF f = "blur_horiz" THEN BlurHorizOf(buf, w, r)
    ELSE IF f = "blur_vert" THEN BlurVertOf(buf, w, r)
    ELSE BlurVertOf(BlurHorizOf(buf, w, r), w, r)

\* C13: lane c of the buffer blur_horiz, blur_vert or blur leaves is lane c
\* of the result for the buffer that keeps lane c only; so two buffers that
\* agree on lane c get results that agree on lane c, whatever their other
\* lanes hold.
C13_LaneIndependence ==
    pc = "done" =>
        \A c \in Lanes :
            LaneOf(argb, c) = LaneOf(ResultOf(fn, OnlyLane(argb0, c), width, radius), c)

\* C13 witness: blur has completed with a radius above 0 on a buffer of two
\* rows and two columns or more that holds both pixel values, and changed it.
C13_Witness ==
    /\ pc = "done"
    /\ fn = "blur"
    /\ radius >= 1
    /\ width >= 2 /\ height >= 2
    /\ Len(argb0) = width * height
    /\ \E i, j \in DOMAIN argb0 : argb0[i] # argb0[j]
    /\ argb # argb0
    /\ \E c \in Lanes : OnlyLane(argb0, c) # argb0

\* ------------------------------------------------------- rows, columns
\* Slot k (from 1) of row y (from 0) has been written by the horizontal pass.
HorizWritten(y, k) ==
    \/ y < row
    \/ y = row /\ pc \in {"h_next", "h_write"} /\ k <= index

\* C14: throughout blur_horiz every slot of a row already written holds the
\* output of a StackBlur run over a copy of the row as it was before the
\* call (with a deque of its own), every other slot holds what it held
\* before the call, and the row being processed is the one the iterator was
\* made over; so when blur_horiz returns every row holds the filter output
\* of its own former values.
C14_RowsFromCopy ==
    (/\ width > 0
     /\ \/ pc \in {"h_row", "h_next", "h_write"}
        \/ pc = "done" /\ fn = "blur_horiz"
        \/ pc = "blur_vert" /\ fn = "blur")
    => /\ \A y \in 0..((Len(argb) \div width) - 1) :
             LET res == BlurSeq(RowOf(argb0, width, y), radius)
             IN  \A k \in 1..width :
                    argb[y * width + k] =
                        IF HorizWritten(y, k) THEN res[k] ELSE argb0[y * width + k]
       /\ \A s \in ((Len(argb) \div width) * width + 1)..Len(argb) : argb[s] = argb0[s]
       /\ pc \in {"h_next", "h_write"} => seq0 = RowOf(argb0, width, row)
       /\ pc \in {"done", "blur_vert"} => row = Len(argb) \div width

\* C14 witness: blur_horiz is about to write the second output of the
\* second row; the first row and the first slot of this row have changed.
C14_Witness ==
    /\ fn = "blur_horiz"
    /\ pc = "h_write"
    /\ radius >= 1
    /\ width >= 2
    /\ row = 1 /\ index = 1
    /\ argb[1] # argb0[1]
    /\ argb[width + 1] # argb0[width + 1]
    /\ argb0[width + 1] # argb0[1]

\* The buffer the vertical pass starts from.
VertInput == IF fn = "blur" THEN BlurHorizOf(argb0, width, radius) ELSE argb0

\* Output k (from 1) of column x (from 0) has been written by the vertical
\* pass, at index x + (k - 1) * width.
VertWritten(x, k) ==
    \/ x < col
    \/ x = col /\ pc \in {"v_next", "v_write"} /\ x + (k - 1) * width < index

\* C15: throughout blur_vert output k of a column already written lies at
\* index x + k*width and is the output of a StackBlur run over a copy of
\* the column as it was when the pass began (with a deque of its own),
\* every other slot holds what it held then, and the column being processed
\* is the one the iterator was made over; so when blur_vert returns every
\* column holds the filter output of its own former values.
C15_ColumnsFromCopy ==
    (/\ fn \in {"blur_vert", "blur"}
     /\ pc \in {"v_col", "v_next", "v_write", "done"})
    => IF width = 0 THEN argb = argb0
       ELSE LET from == VertInput
                cols == [x \in 1..width |-> BlurSeq(ColumnOf(from, width, x - 1), radius)]
            IN  /\ Len(cols) = width
                /\ \A s \in 1..Len(argb) :
                      argb[s] =
                          IF VertWritten((s - 1) % width, ((s - 1) \div width) + 1)
                          THEN cols[((s - 1) % width) + 1][((s - 1) \div width) + 1]
                          ELSE from[s]
                /\ pc \in {"v_next", "v_write"} => seq0 = ColumnOf(from, width, col)
                /\ pc = "done" => col = width

\* C15 witness: blur_vert is about to write the second output of the second
\* column; the first column and the top of this column have changed.
C15_Witness ==
    /\ fn = "blur_vert"
    /\ pc = "v_write"
    /\ radius >= 1
    /\ width >= 2 /\ height >= 2
    /\ col = 1 /\ index = col + width
    /\ argb[1] # argb0[1]
    /\ argb[2] # argb0[2]
    /\ argb0[2] # argb0[1]

\* ------------------------------------------------------------ divisor
\* The full weight mass (radius+1)^2.
FullMass == (sb.radius + 1) * (sb.radius + 1)

\* Output i (from 0) has the whole window inside an input of length n.
Interior(i, n) == sb.radius <= i /\ i <= n - 1 - sb.radius

\* C16: the divisor used for output i is exactly (radius+1)^2 when
\* radius <= i <= N-1-radius and strictly smaller otherwise (so for every
\* output when N < 2*radius+1).
C16_SteadyDivisor ==
    \A i \in 0..(Len(used) - 1) :
        IF Interior(i, Len(input))
        THEN used[i + 1] = FullMass
        ELSE used[i + 1] < FullMass

\* C16 witness: an input of 2*radius+2 items or more, radius >= 1, filtered
\* to the end: outputs at both boundaries and two or more in between.
C16_Witness ==
    /\ Complete
    /\ nones > 0
    /\ sb.radius >= 1
    /\ Len(input) >= 2 * sb.radius + 2
    /\ used[1] < FullMass
    /\ used[sb.radius + 1] = FullMass
    /\ used[Len(input) - sb.radius] = FullMass
    /\ used[Len(input)] < FullMass

\* ------------------------------------------------------ deque reuse
\* C17: whatever deque was handed to StackBlur::new (empty, arbitrary, or
\* returned by into_ops of an earlier run with another input and radius),
\* the outputs are those of the same input and radius with a fresh empty
\* deque, and the run ends with None after the same number of outputs.
C17_OpsIndependence ==
    LET fresh == Collect(input, sb.radius, <<>>, <<0>>)
    IN  /\ pc = "next"
        /\ ~fresh.panic
        /\ Len(out) <= Len(fresh.outs)
        /\ out = SubSeq(fresh.outs, 1, Len(out))
        /\ nones > 0 => out = fresh.outs

\* C17 witness: a run to the end, radius 1, over a non-constant input,
\* whose deque came from an earlier run with the largest radius that was
\* given up after two outputs: longer than needed and not all zero.
C17_Witness ==
    /\ nones > 0
    /\ sb.radius = 1
    /\ Len(out) >= 3
    /\ ~IsConstant(input)
    /\ ops = IntoOps(StateAfter(New(MaxRadius, <<>>, <<0>>), Scenario, 2))
    /\ Len(ops) > Len(sb.ops)
    /\ \E k \in 1..Len(sb.ops) : ops[k] # <<0>>

\* ------------------------------------------------------------- ring
\* The length init gives the ring.
RingLen == 2 * sb.radius + 2

\* C18: once next has been called the ring holds exactly 2*radius+2
\* entries; init leaves it so whatever it held, the pop and push of a step
\* keep it so, and the entries the ingest branch reaches (radius and
\* 2*radius+1, from 0) and the fill loop reaches (sub and sub+radius+1 for
\* sub up to radius) exist when they are reached.
C18_RingLength ==
    /\ pc = "next"
    /\ (Len(out) > 0 \/ nones > 0) => Len(sb.ops) = RingLen
    /\ sb.done =>
          /\ Len(SBInit(sb, input).ops) = RingLen
          /\ \A sub \in 0..sb.radius :
                {sub + 1, sub + sb.radius + 2} \subseteq 1..RingLen
    /\ ~sb.done =>
          /\ Len(Rotate(sb).ops) = RingLen
          /\ {sb.radius + 1, 2 * sb.radius + 2} \subseteq DOMAIN Rotate(sb).ops
          /\ Len(SBNext(sb, input).state.ops) = RingLen

\* C18 witness: a run in its ingest phase, radius >= 1, started with a
\* deque of another length, the ring holding corrections still to come.
C18_Witness ==
    /\ ~sb.done
    /\ sb.radius >= 1
    /\ Len(out) >= 2
    /\ sb.iter.pos > sb.radius + 1
    /\ Len(ops) > 0 /\ Len(ops) # RingLen
    /\ sb.ops[2 * sb.radius + 1] # <<0>>

\* ------------------------------------------------------------ ranges
\* The items the pending call of next reads from.
NextItems == IF pc = "h_next" THEN RowItems ELSE ColItems

\* The StackBlur as the pending call of next finds it once init has run.
AtOutput == IF sb.done THEN SBInit(sb, NextItems) ELSE sb

\* How many outputs of the current row or column have been written.
Written == IF pc = "h_write" THEN index ELSE (index - col) \div width

\* The positions of seq0 within radius of the output about to be written.
Window ==
    {j \in 1..Len(seq0) : j - (Written + 1) <= radius /\ (Written + 1) - j <= radius}

\* C19: the lanes of the pixels are in 0..255 and nothing overflows, so at
\* every output step every lane of sum is between 0 and 255*dnom, every
\* lane of every output is between the smallest and the largest input in
\* its window, hence in 0..255, and to_argb packs it without loss.
C19_LanesInRange ==
    /\ \A s \in 1..Len(argb) : \A l \in Lanes : from_argb(argb[s])[l] \in 0..255
    /\ pc \in {"h_next", "v_next"} =>
          (~AtOutput.done =>
              /\ AtOutput.dnom >= 1
              /\ \A l \in Lanes :
                    /\ 0 <= AtOutput.sum[l]
                    /\ AtOutput.sum[l] <= 255 * AtOutput.dnom
                    /\ AtOutput.sum[l] <= I32Max)
    /\ pc \in {"h_write", "v_write"} =>
          /\ Window # {}
          /\ \A l \in Lanes :
                /\ pending[l] \in 0..255
                /\ \E j \in Window : seq0[j][l] <= pending[l]
                /\ \E j \in Window : seq0[j][l] >= pending[l]
          /\ from_argb(to_argb(pending)) = pending

\* C19 witness: the vertical pass of blur is about to write an output, with
\* a radius above 0, that has a lane strictly between the inputs of its
\* window, one of which is 255.
C19_Witness ==
    /\ fn = "blur"
    /\ pc = "v_write"
    /\ radius >= 1
    /\ \E l \in Lanes :
          /\ \A j \in Window : seq0[j][l] # pending[l]
          /\ \E j \in Window : seq0[j][l] = 255

\* ------------------------------------------------------- after None
\* The outcome of a call of next that changes nothing and returns None.
NoneAgain == [state |-> sb, result |-> None, panic |-> FALSE, dnom |-> 0]

\* C20, the states: no call of next divides by a zero divisor, and once
\* next has returned None every input item has been returned as an output,
\* the StackBlur is done, and a further call (which runs init again) leaves
\* it as it is and returns None.
C20_States ==
    /\ pc = "next"
    /\ nones >= 1 =>
          /\ sb.done
          /\ Complete
          /\ sb.iter.pos = Len(input)
          /\ SBNext(sb, input) = NoneAgain

\* C20, the steps: after a None every call returns None and no output.
C20_Steps ==
    nones >= 1 => (nones' = nones + 1 /\ out' = out /\ used' = used /\ sb' = sb)

\* C20: once next has returned None, with the underlying iterator staying
\* exhausted, every later call returns None as well: the init it runs again
\* produces no output and no division by a zero divisor.
C20_NoneForever == []C20_States /\ [][C20_Steps]_vars

\* C20 witness: next has returned None twice after the outputs of a
\* non-empty input, radius >= 1.
C20_Witness ==
    /\ nones >= 2
    /\ Len(out) >= 3
    /\ sb.radius >= 1
    /\ Len(ops) > 0

====
